---- MODULE Spec2Model ----
(***************************************************************************)
(* XMind to Draw.io converter (converter.py).                              *)
(*                                                                         *)
(* The model follows XMindToDrawioConverter.convert_all over a batch of    *)
(* archives: XMindParser.parse, XMindParser.get_root_topic,                *)
(* DrawioGenerator.create_drawio_xml and the recursive emitters            *)
(* _convert_json_topic / _convert_xml_topic, whose recursion is kept as an *)
(* explicit stack of frames so that every appended mxCell is one step.     *)
(*                                                                         *)
(* Python dicts are TLA+ functions with string domains (a missing key is a *)
(* missing domain element), Python lists are sequences.  Coordinates are   *)
(* kept as numbers: every subtree height is a multiple of 10, so total/2   *)
(* and child_height/2 are whole numbers and the float division is exact.   *)
(***************************************************************************)
EXTENDS Integers, Sequences, FiniteSets, TLC

(***************************************************************************)
(* Bounds of the explored inputs.                                          *)
(***************************************************************************)
MaxFiles == 2       \* archives found by one convert_all
MaxTopics == 4      \* topics of an enumerated tree
MaxCallouts == 3    \* callouts of an enumerated tree (all topics together)

(***************************************************************************)
(* DrawioGenerator.__init__                                                *)
(***************************************************************************)
InitialCellId == 2
x_spacing == 250
min_y_spacing == 120
box_width == 120
box_height == 60
callout_width == 200
callout_height == 60
callout_offset_x == -50
callout_offset_y == -80
callout_spacing == 70

\* create_drawio_xml: anchor of the root topic
root_x == 400
root_y == 300

(***************************************************************************)
(* Python values.                                                          *)
(***************************************************************************)
EmptyDict == [k \in {} |-> 0]

\* dict.get(key, default)
Get(d, k, default) == IF k \in DOMAIN d THEN d[k] ELSE default

\* None, and JSON values whose Python type matters to the code
None == [type |-> "NoneType"]
JList(items) == [type |-> "list", items |-> items]
JDict(fields) == [type |-> "dict", fields |-> fields]
JNumber == [type |-> "int"]
JString == [type |-> "str"]

\* a JSON title that is a number: accepted as an attribute value by
\* ET.SubElement, rejected by the serializer in tree.write
NonStringTitle == "<int 5>"

RECURSIVE SumSeq(_)
SumSeq(s) == IF s = <<>> THEN 0 ELSE Head(s) + SumSeq(Tail(s))

RECURSIVE Flatten(_)
Flatten(ss) == IF ss = <<>> THEN <<>> ELSE Head(ss) \o Flatten(Tail(ss))

Max(a, b) == IF a > b THEN a ELSE b

(***************************************************************************)
(* Source documents.  A JSON topic is a dict with optional "title" and     *)
(* optional "children" = dict with optional "attached" / "callout" lists.  *)
(***************************************************************************)
NoTitle == "<no title>"     \* used only to build topics without the key

TitleField(t) == IF t = NoTitle THEN EmptyDict ELSE [title |-> t]

ChildrenField(att, co) ==
    IF att = <<>> /\ co = <<>> THEN EmptyDict
    ELSE [children |-> (IF att = <<>> THEN EmptyDict ELSE [attached |-> att])
                       @@ (IF co = <<>> THEN EmptyDict ELSE [callout |-> co])]

JsonTopic(t, att, co) == TitleField(t) @@ ChildrenField(att, co)

PlainCallouts(n) == [i \in 1..n |-> [title |-> "Note"]]

\* ordered trees with exactly n topics and c callouts, titles all "T"
RECURSIVE TreesNC(_, _), ForestsNC(_, _)
TreesNC(n, c) ==
    UNION { { JsonTopic("T", f, PlainCallouts(j)) : f \in ForestsNC(n - 1, c - j) }
            : j \in 0..c }
ForestsNC(n, c) ==
    IF n = 0 THEN (IF c = 0 THEN {<<>>} ELSE {})
    ELSE UNION { UNION { { <<t>> \o f : t \in TreesNC(k, d), f \in ForestsNC(n - k, c - d) }
                         : d \in 0..c }
                 : k \in 1..n }

ShapeTrees == UNION { UNION { TreesNC(n, c) : c \in 0..MaxCallouts } : n \in 1..MaxTopics }

\* small trees over every kind of title and of callout
TitleChoices == {NoTitle, "", "A", NonStringTitle}
CalloutChoices ==
    { EmptyDict, [title |-> ""], [title |-> "Note"],
      [title |-> "Note",
       children |-> [attached |-> <<[title |-> "Hidden"]>>,
                     callout |-> <<[title |-> "Nested"]>>]] }
TitleTrees ==
    { JsonTopic(t, <<>>, <<>>) : t \in TitleChoices }
    \cup { JsonTopic("A", <<JsonTopic(t, <<>>, <<>>)>>, <<>>) : t \in TitleChoices }
    \cup { JsonTopic(t, <<>>, <<c>>) : t \in {NoTitle, "A"}, c \in CalloutChoices }
    \cup { JsonTopic("A", <<JsonTopic("B", <<>>, <<c>>)>>, <<>>) : c \in CalloutChoices }
    \cup { JsonTopic("A", <<>>, <<[title |-> "Note"], c>>) : c \in CalloutChoices }

\* create_test_data.create_test_xmind_json (the fields the converter reads)
ScenarioA ==
    JsonTopic("Test Project",
        << JsonTopic("Module A", <<>>, <<[title |-> "This is a test annotation"]>>),
           JsonTopic("Module B",
               << JsonTopic("Sub-module B1", <<>>, <<>>),
                  JsonTopic("Sub-module B2", <<>>, <<>>) >>, <<>>),
           JsonTopic("Module C", <<>>, <<[title |-> "Annotation C"]>>) >>,
        <<>>)

\* two branches with children of their own, with and without callouts
Leaves(n) == [i \in 1..n |-> JsonTopic("T", <<>>, <<>>)]
CousinTrees ==
    { JsonTopic("R", << JsonTopic("X", Leaves(a), PlainCallouts(i)),
                        JsonTopic("Y", Leaves(b), PlainCallouts(j)) >>, <<>>)
        : a \in 1..2, b \in 1..2, i \in 0..1, j \in 0..1 }

JsonTrees == ShapeTrees \cup TitleTrees \cup {ScenarioA} \cup CousinTrees

(***************************************************************************)
(* An XML topic element: optional title child (its text), optional         *)
(* children child holding topics containers of any type.  ToXml is the     *)
(* legacy encoding of the same map: attached topics in a container of type *)
(* "attached", callouts in a container of type "callout".                  *)
(***************************************************************************)
XmlTitle(t) == IF "title" \in DOMAIN t
               THEN [title |-> IF t.title = NonStringTitle THEN "5" ELSE t.title]
               ELSE EmptyDict

RECURSIVE ToXml(_)
ToXml(t) ==
    LET ch  == Get(t, "children", EmptyDict)
        att == Get(ch, "attached", <<>>)
        co  == Get(ch, "callout", <<>>)
        cs  == (IF att = <<>> THEN <<>>
                ELSE << [type |-> "attached", topics |-> [i \in 1..Len(att) |-> ToXml(att[i])]] >>)
               \o (IF co = <<>> THEN <<>>
                   ELSE << [type |-> "callout", topics |-> [i \in 1..Len(co) |-> ToXml(co[i])]] >>)
    IN  [tag |-> "topic"] @@ XmlTitle(t)
        @@ (IF cs = <<>> THEN EmptyDict ELSE [children |-> cs])

\* create_test_data.create_test_xmind_xml
ScenarioB ==
    [tag |-> "topic", title |-> "XML Format Test",
     children |-> << [type |-> "attached",
                      topics |-> << [tag |-> "topic", title |-> "Topic A"],
                                    [tag |-> "topic", title |-> "Topic B",
                                     children |-> << [type |-> "attached",
                                                      topics |-> << [tag |-> "topic", title |-> "Subtopic B1"] >> ] >> ] >> ] >> ]

\* a children element with no container, and one with an empty container
XmlOddTrees ==
    { [tag |-> "topic", title |-> "A", children |-> <<>>],
      [tag |-> "topic", title |-> "A", children |-> << [type |-> "attached", topics |-> <<>>] >>],
      [tag |-> "topic", title |-> "A",
       children |-> << [type |-> "attached", topics |-> << [tag |-> "topic", title |-> "B"] >>],
                       [type |-> "detached", topics |-> << [tag |-> "topic", title |-> "C"] >>] >>] }

XmlTrees == { ToXml(t) : t \in JsonTrees } \cup {ScenarioB} \cup XmlOddTrees

(***************************************************************************)
(* Archives.  names = zip_file.namelist(); json / xml = the bytes of the   *)
(* two payload entries, given by whether they parse and to what.           *)
(***************************************************************************)
Bad == [valid |-> FALSE]
Good(doc) == [valid |-> TRUE, doc |-> doc]

Archive(names, json, xml) == [zip |-> TRUE, names |-> names, json |-> json, xml |-> xml]

JsonDoc(topic) == JList(<< JDict([rootTopic |-> JDict(topic)]) >>)
XmlDoc(topic) == [sheets |-> << [topics |-> <<topic>>] >>]

JsonOddDocs ==
    { None,                                        \* null
      JDict(EmptyDict),                            \* {}
      JList(<<>>),                                 \* []
      JList(<<JNumber>>),                          \* [5]
      JList(<<JDict(EmptyDict)>>),                 \* [{}]
      JList(<<JDict([rootTopic |-> None])>>),      \* [{"rootTopic": null}]
      JList(<<JDict([rootTopic |-> JString])>>) }  \* [{"rootTopic": "x"}]

XmlOddDocs ==
    { [sheets |-> <<>>],                           \* no sheet element
      [sheets |-> << [topics |-> <<>>] >>] }       \* sheet without topic child

Files ==
    { [zip |-> FALSE, names |-> {}, json |-> Bad, xml |-> Bad] }
    \cup { Archive({"meta.xml"}, Bad, Bad) }
    \cup { Archive({"content.json"}, Bad, Bad),
           Archive({"content.xml"}, Bad, Bad),
           Archive({"content.json", "content.xml"}, Bad, Good(XmlDoc(ScenarioB))),
           Archive({"content.json", "content.xml"}, Good(JsonDoc(ScenarioA)), Good(XmlDoc(ScenarioB))),
           Archive({"content.json", "content.xml"}, Good(JsonDoc(ScenarioA)), Bad) }
    \cup { Archive({"content.json"}, Good(d), Bad) : d \in JsonOddDocs }
    \cup { Archive({"content.xml"}, Bad, Good(d)) : d \in XmlOddDocs }
    \cup { Archive({"content.json", "metadata.json"}, Good(JsonDoc(t)), Bad) : t \in JsonTrees }
    \cup { Archive({"content.xml", "meta.xml"}, Bad, Good(XmlDoc(t))) : t \in XmlTrees }

(***************************************************************************)
(* XMindParser                                                             *)
(***************************************************************************)
\* variant of parse: content.xml is looked for first
parse_XmlFirst(f) ==
    IF ~f.zip THEN [root |-> None, is_json_format |-> FALSE]
    ELSE IF "content.xml" \in f.names
         THEN [root |-> IF f.xml.valid THEN f.xml.doc ELSE None,
               is_json_format |-> FALSE]
    ELSE IF "content.json" \in f.names
         THEN [root |-> IF f.json.valid THEN f.json.doc ELSE None,
               is_json_format |-> TRUE]
    ELSE [root |-> None, is_json_format |-> FALSE]

\* parse(): the returned document and the is_json_format flag it leaves.
\* Any exception (archive cannot be opened, payload not valid) is caught
\* and the method returns None; so it does when no payload entry exists.
parse(f) ==
    IF ~f.zip THEN [root |-> None, is_json_format |-> FALSE]
    ELSE IF "content.json" \in f.names
         THEN [root |-> IF f.json.valid THEN f.json.doc ELSE None,
               is_json_format |-> TRUE]
    ELSE IF "content.xml" \in f.names
         THEN [root |-> IF f.xml.valid THEN f.xml.doc ELSE None,
               is_json_format |-> FALSE]
    ELSE [root |-> None, is_json_format |-> FALSE]

Returned(v) == [raised |-> FALSE, value |-> v]
Raised(e) == [raised |-> TRUE, error |-> e]

\* variant of get_root_topic: a sheet without rootTopic yields an empty topic
get_root_topic_Default(root, is_json) ==
    IF is_json
    THEN IF root.type = "list" /\ Len(root.items) > 0
         THEN LET first_sheet == root.items[1]
              IN  IF first_sheet.type = "dict"
                  THEN Returned(Get(first_sheet.fields, "rootTopic", JDict(EmptyDict)))
                  ELSE Raised("AttributeError")
         ELSE Returned(None)
    ELSE IF root.sheets # <<>>
         THEN LET sheet == root.sheets[1]
              IN  IF sheet.topics # <<>> THEN Returned(sheet.topics[1])
                  ELSE Returned(None)
         ELSE Returned(None)

\* get_root_topic(root): first_sheet.get raises AttributeError when the
\* first sheet is not a dict; nothing catches it.
get_root_topic(root, is_json) ==
    IF is_json
    THEN IF root.type = "list" /\ Len(root.items) > 0
         THEN LET first_sheet == root.items[1]
              IN  IF first_sheet.type = "dict"
                  THEN Returned(Get(first_sheet.fields, "rootTopic", None))
                  ELSE Raised("AttributeError")
         ELSE Returned(None)
    ELSE IF root.sheets # <<>>
         THEN LET sheet == root.sheets[1]
              IN  IF sheet.topics # <<>> THEN Returned(sheet.topics[1])
                  ELSE Returned(None)
         ELSE Returned(None)

(***************************************************************************)
(* DrawioGenerator: pure parts                                             *)
(***************************************************************************)
\* variant of generator_cell_id: one generator serves the whole batch
generator_cell_id_Shared(previous) == previous

\* generator = DrawioGenerator(): the counter of the new generator, whatever
\* the counter of the generator of the previous file had reached
generator_cell_id(previous) == InitialCellId

\* variants of NextCellId: the counter is not advanced / advanced by two
NextCellId_Stuck(c) == c
NextCellId_Skip(c) == c + 2

\* self.cell_id += 1
NextCellId(c) == c + 1

\* _get_style(level)
get_style(level) ==
    IF level = 0
    THEN "rounded=1;whiteSpace=wrap;html=1;fillColor=#dae8fc;strokeColor=#6c8ebf;fontStyle=1;fontSize=14;"
    ELSE IF level = 1
    THEN "rounded=1;whiteSpace=wrap;html=1;fillColor=#dae8fc;strokeColor=#6c8ebf;fontSize=12;"
    ELSE "rounded=1;whiteSpace=wrap;html=1;fillColor=#dae8fc;strokeColor=#6c8ebf;fontSize=11;"

callout_style ==
    "shape=note;whiteSpace=wrap;html=1;fillColor=#fff2cc;strokeColor=#d6b656;fontSize=9;align=left;verticalAlign=top;spacing=8;spacingLeft=12;spacingRight=12;spacingTop=8;backgroundOutline=1;size=12;"
dashed_style ==
    "edgeStyle=none;rounded=1;orthogonalLoop=1;jettySize=auto;html=1;dashed=1;strokeColor=#d6b656;strokeWidth=1;"
connector_style ==
    "edgeStyle=entityRelationEdgeStyle;rounded=1;orthogonalLoop=1;jettySize=auto;html=1;curved=1;strokeColor=#6c8ebf;strokeWidth=1;"

\* title of a topic: JSON topic.get('title', 'Topic'); XML the text of the
\* title element when the element exists and its text is non-empty
json_title(topic) == Get(topic, "title", "Topic")
xml_title(topic) ==
    IF "title" \in DOMAIN topic /\ topic.title # "" THEN topic.title ELSE "Topic"
topic_title(topic, is_json) == IF is_json THEN json_title(topic) ELSE xml_title(topic)

\* callout.get('title', '')
callout_title(callout) == Get(callout, "title", "")

\* children.get('attached', []) and children.get('callout', [])
attached_topics(topic) == Get(Get(topic, "children", EmptyDict), "attached", <<>>)
callout_topics(topic) == Get(Get(topic, "children", EmptyDict), "callout", <<>>)

\* variant of child_topics: only the first topics container is read
child_topics_FirstOnly(topic) ==
    IF "children" \in DOMAIN topic /\ topic.children # <<>>
    THEN topic.children[1].topics
    ELSE <<>>

\* XML: every topic of every topics container under the children element
child_topics(topic) ==
    IF "children" \in DOMAIN topic
    THEN Flatten([i \in 1..Len(topic.children) |-> topic.children[i].topics])
    ELSE <<>>

\* variant of callouts_of: the callout loop is never entered
callouts_of_None(topic, is_json) == <<>>

\* the attached children and the callouts the emitter of each encoding walks
kids_of(topic, is_json) == IF is_json THEN attached_topics(topic) ELSE child_topics(topic)
callouts_of(topic, is_json) == IF is_json THEN callout_topics(topic) ELSE <<>>

\* variant of _calculate_subtree_height: no room reserved for callouts
RECURSIVE calculate_subtree_height_NoCallouts(_)
calculate_subtree_height_NoCallouts(topic) ==
    LET att == attached_topics(topic)
    IN  IF att = <<>> THEN min_y_spacing
        ELSE Max(SumSeq([i \in 1..Len(att) |-> calculate_subtree_height_NoCallouts(att[i])]),
                 min_y_spacing)

\* variant of _calculate_subtree_height: the children's sum is returned
\* without comparing it with the base height
RECURSIVE calculate_subtree_height_SumOnly(_)
calculate_subtree_height_SumOnly(topic) ==
    LET att  == attached_topics(topic)
        co   == callout_topics(topic)
        base_height == IF co # <<>> THEN min_y_spacing + Len(co) * callout_spacing
                       ELSE min_y_spacing
    IN  IF att = <<>> THEN base_height
        ELSE SumSeq([i \in 1..Len(att) |-> calculate_subtree_height_SumOnly(att[i])])

\* _calculate_subtree_height(topic)
RECURSIVE calculate_subtree_height(_)
calculate_subtree_height(topic) ==
    LET att  == attached_topics(topic)
        co   == callout_topics(topic)
        base_height == IF co # <<>> THEN min_y_spacing + Len(co) * callout_spacing
                       ELSE min_y_spacing
    IN  IF att = <<>> THEN base_height
        ELSE Max(SumSeq([i \in 1..Len(att) |-> calculate_subtree_height(att[i])]),
                 base_height)

\* _calculate_xml_subtree_height(topic, namespaces)
RECURSIVE calculate_xml_subtree_height(_)
calculate_xml_subtree_height(topic) ==
    LET cs == child_topics(topic)
    IN  IF cs = <<>> THEN min_y_spacing
        ELSE Max(SumSeq([i \in 1..Len(cs) |-> calculate_xml_subtree_height(cs[i])]),
                 min_y_spacing)

subtree_height(topic, is_json) ==
    IF is_json THEN calculate_subtree_height(topic)
    ELSE calculate_xml_subtree_height(topic)

\* total_height = sum(height(child) for child in children)
total_height(kids, is_json) ==
    SumSeq([i \in 1..Len(kids) |-> subtree_height(kids[i], is_json)])

\* variant of first_child_y: the children's space starts a whole
\* total_height above the parent
first_child_y_NotCentred(y, total) == y - total
\* current_y = y - (total_height / 2)
first_child_y(y, total) == y - (total \div 2)
\* variant of child_y: the child is put at the far end of its space
child_y_End(current_y, child_height) == current_y + child_height
\* child_y = current_y + (child_height / 2)
child_y(current_y, child_height) == current_y + (child_height \div 2)
\* variant of child_x: the child stays in the column of its parent
child_x_NoShift(x) == x
\* child_x = x + self.x_spacing
child_x(x) == x + x_spacing
\* callout_x, callout_y for the callout of 0-based index idx
callout_x(x) == x + callout_offset_x
\* variant of callout_y: the callouts are stacked downwards
callout_y_Down(y, i0) == y + callout_offset_y + (i0 * callout_spacing)
callout_y(y, i0) == y + callout_offset_y - (i0 * callout_spacing)

(***************************************************************************)
(* Output cells.  attrib = the attributes of the mxCell element, children  *)
(* = the attributes of its mxGeometry child elements.  origin is           *)
(* bookkeeping that ties a cell to the source: the path of the topic       *)
(* (child indices from the root), the 1-based index of the callout (0 for  *)
(* a topic cell) and the band height the parent allotted to the topic.     *)
(***************************************************************************)
Origin(path, callout, band) == [path |-> path, callout |-> callout, band |-> band]

DefaultCells ==
    << [attrib |-> [id |-> "0"], children |-> <<>>, origin |-> Origin(<<>>, 0, 0)],
       [attrib |-> [id |-> "1", parent |-> "0"], children |-> <<>>, origin |-> Origin(<<>>, 0, 0)] >>

\* variant of VertexCell: the geometry attribute is written as_ (the
\* keyword argument as_='geometry' instead of geometry.set('as', ...))
VertexCell_AsUnderscore(id, value, style, x, y, width, height, origin) ==
    [attrib |-> [id |-> id, value |-> value, style |-> style, vertex |-> "1", parent |-> "1"],
     children |-> << [x |-> x, y |-> y, width |-> width, height |-> height, as_ |-> "geometry"] >>,
     origin |-> origin]

VertexCell(id, value, style, x, y, width, height, origin) ==
    [attrib |-> [id |-> id, value |-> value, style |-> style, vertex |-> "1", parent |-> "1"],
     children |-> << [x |-> x, y |-> y, width |-> width, height |-> height, as |-> "geometry"] >>,
     origin |-> origin]

\* variant of EdgeCell: source and target are exchanged
EdgeCell_Swapped(id, style, source, target, origin) ==
    [attrib |-> [id |-> id, value |-> "", style |-> style, edge |-> "1", parent |-> "1",
                 source |-> target, target |-> source],
     children |-> << [relative |-> "1", as |-> "geometry"] >>,
     origin |-> origin]

EdgeCell(id, style, source, target, origin) ==
    [attrib |-> [id |-> id, value |-> "", style |-> style, edge |-> "1", parent |-> "1",
                 source |-> source, target |-> target],
     children |-> << [relative |-> "1", as |-> "geometry"] >>,
     origin |-> origin]

\* tree.write: the serializer accepts string attribute values only
Serializable(cs) ==
    \A i \in 1..Len(cs) :
        "value" \in DOMAIN cs[i].attrib => cs[i].attrib.value # NonStringTitle

\* what tree.write leaves at output_path: the file is opened first, then
\* the elements are serialized into it
written_file(cs) == IF Serializable(cs) THEN "complete" ELSE "partial"

\* a frame of _convert_json_topic / _convert_xml_topic
Frame(topic, parent_id, x, y, level, path, band) ==
    [topic |-> topic, parent_id |-> parent_id, x |-> x, y |-> y, level |-> level,
     pc |-> "vertex", phase |-> 0, current_id |-> "", i |-> 1, current_y |-> 0,
     child_height |-> 0,
     path |-> path, band |-> band]

(***************************************************************************)
(* State                                                                   *)
(***************************************************************************)
VARIABLES
    pc,             \* position in convert_all / convert_file
    nfiles,         \* len(xmind_files)
    idx,            \* 1-based index of the file of the current iteration
    log,            \* per finished file: how convert_file ended
    file,           \* the archive at xmind_path
    root,           \* root = parser.parse()
    is_json_format, \* parser.is_json_format
    root_topic,     \* root_topic = parser.get_root_topic(root)
    cell_id,        \* generator.cell_id, of the generator made last
    cells,          \* the mxCell children of the output root element
    stack,          \* frames of _convert_json_topic / _convert_xml_topic
    ret,            \* value returned by the last finished frame
    disk,           \* the output file of the current input
    saved           \* cells of the output files written so far for the probe documents

vars == <<pc, nfiles, idx, log, file, root, is_json_format, root_topic,
          cell_id, cells, stack, ret, disk, saved>>

\* the documents whose output is kept for comparison with a later
\* conversion of the same document: the two samples of create_test_data
ProbeFiles ==
    { Archive({"content.json", "metadata.json"}, Good(JsonDoc(ScenarioA)), Bad),
      Archive({"content.xml", "meta.xml"}, Bad, Good(XmlDoc(ScenarioB))) }

\* tree.write(output_path) of a finished conversion
keep_output(kept, f, cs) == IF f \in ProbeFiles THEN (f :> cs) @@ kept ELSE kept

NoFile == [zip |-> FALSE, names |-> {}, json |-> Bad, xml |-> Bad]

\* some topic or callout that is emitted carries a title that is no string
RECURSIVE HasNonStringValue(_)
HasNonStringValue(topic) ==
    \/ Get(topic, "title", "") = NonStringTitle
    \/ \E i \in 1..Len(callout_topics(topic)) :
           Get(callout_topics(topic)[i], "title", "") = NonStringTitle
    \/ \E i \in 1..Len(attached_topics(topic)) :
           HasNonStringValue(attached_topics(topic)[i])

\* the step of convert_file at which an input makes the conversion fail
\* ("ok" when it does not), read off the archive alone
InputClass(f) ==
    IF ~f.zip THEN "open"
    ELSE IF "content.json" \in f.names
    THEN IF ~f.json.valid THEN "parse"
         ELSE IF f.json.doc.type # "list" THEN "root"
         ELSE IF f.json.doc.items = <<>> THEN "root"
         ELSE IF f.json.doc.items[1].type # "dict" THEN "root"
         ELSE IF "rootTopic" \notin DOMAIN f.json.doc.items[1].fields THEN "root"
         ELSE IF f.json.doc.items[1].fields.rootTopic = None THEN "root"
         ELSE IF f.json.doc.items[1].fields.rootTopic.type # "dict" THEN "emission"
         ELSE IF HasNonStringValue(f.json.doc.items[1].fields.rootTopic.fields) THEN "write"
         ELSE "ok"
    ELSE IF "content.xml" \in f.names
    THEN IF ~f.xml.valid THEN "parse"
         ELSE IF f.xml.doc.sheets = <<>> THEN "root"
         ELSE IF f.xml.doc.sheets[1].topics = <<>> THEN "root"
         ELSE "ok"
    ELSE "entry"

\* convert_file returns (normally) with the given message printed
FileReturns(message, output, kept) ==
    /\ log' = Append(log, [input |-> InputClass(file), message |-> message, output |-> output])
    /\ idx' = idx + 1
    /\ pc' = "loop"
    /\ file' = NoFile
    /\ root' = None
    /\ is_json_format' = FALSE
    /\ root_topic' = None
    /\ cells' = <<>>
    /\ stack' = <<>>
    /\ ret' = ""
    /\ disk' = "none"
    /\ saved' = kept
    /\ UNCHANGED <<nfiles, cell_id>>

\* an exception leaves convert_file and convert_all: nothing catches it
FileRaises(error, output) ==
    /\ log' = Append(log, [input |-> InputClass(file), message |-> error, output |-> output])
    /\ pc' = "crashed"
    /\ disk' = output
    /\ UNCHANGED <<nfiles, idx, file, root, is_json_format, root_topic,
                   cell_id, cells, stack, ret, saved>>

Init ==
    /\ pc = "start"
    /\ nfiles = 0
    /\ idx = 1
    /\ log = <<>>
    /\ file = NoFile
    /\ root = None
    /\ is_json_format = FALSE
    /\ root_topic = None
    /\ cell_id = InitialCellId
    /\ cells = <<>>
    /\ stack = <<>>
    /\ ret = ""
    /\ disk = "none"
    /\ saved = EmptyDict

(***************************************************************************)
(* XMindToDrawioConverter.convert_all                                      *)
(***************************************************************************)
\* glob finds n files; with none the method reports it and returns
ConvertAll ==
    /\ pc = "start"
    /\ \E n \in 0..MaxFiles :
          /\ nfiles' = n
          /\ pc' = IF n = 0 THEN "done" ELSE "loop"
    /\ UNCHANGED <<idx, log, file, root, is_json_format, root_topic,
                   cell_id, cells, stack, ret, disk, saved>>

\* for xmind_file in xmind_files: self.convert_file(xmind_file)
NextFile ==
    /\ pc = "loop"
    /\ idx <= nfiles
    /\ \E f \in Files : file' = f
    /\ pc' = "parse"
    /\ UNCHANGED <<nfiles, idx, log, root, is_json_format, root_topic,
                   cell_id, cells, stack, ret, disk, saved>>

LoopEnds ==
    /\ pc = "loop"
    /\ idx > nfiles
    /\ pc' = "done"
    /\ UNCHANGED <<nfiles, idx, log, file, root, is_json_format, root_topic,
                   cell_id, cells, stack, ret, disk, saved>>

(***************************************************************************)
(* XMindToDrawioConverter.convert_file                                     *)
(***************************************************************************)
\* root = parser.parse(); if root is None: print "Failed to parse"; return
Parse ==
    /\ pc = "parse"
    /\ LET r == parse(file)
       IN  IF r.root = None
           THEN FileReturns("Failed to parse", disk, saved)
           ELSE /\ root' = r.root
                /\ is_json_format' = r.is_json_format
                /\ pc' = "get_root_topic"
                /\ UNCHANGED <<nfiles, idx, log, file, root_topic,
                               cell_id, cells, stack, ret, disk, saved>>

\* root_topic = parser.get_root_topic(root); if root_topic is None: return
GetRootTopic ==
    /\ pc = "get_root_topic"
    /\ LET r == get_root_topic(root, is_json_format)
       IN  IF r.raised
           THEN FileRaises(r.error, disk)
           ELSE IF r.value = None
           THEN FileReturns("No root topic found", disk, saved)
           ELSE /\ root_topic' = r.value
                /\ pc' = "create_drawio_xml"
                /\ UNCHANGED <<nfiles, idx, log, file, root, is_json_format,
                               cell_id, cells, stack, ret, disk, saved>>

(***************************************************************************)
(* DrawioGenerator.create_drawio_xml                                       *)
(***************************************************************************)
\* generator = DrawioGenerator(); the wrapper elements and the two default
\* cells; then the call of the emitter of the encoding on the root topic
CreateDrawioXml ==
    /\ pc = "create_drawio_xml"
    /\ is_json_format => root_topic.type = "dict"
    /\ cell_id' = generator_cell_id(cell_id)
    /\ cells' = DefaultCells
    /\ ret' = ""
    /\ stack' = << Frame(IF is_json_format THEN root_topic.fields ELSE root_topic,
                         "1", root_x, root_y, 0, <<>>, 0) >>
    /\ pc' = "emit"
    /\ UNCHANGED <<nfiles, idx, log, file, root, is_json_format, root_topic, disk, saved>>

\* the root topic of a JSON document is not a dict: topic.get raises
CreateDrawioXmlRaises ==
    /\ pc = "create_drawio_xml"
    /\ is_json_format
    /\ root_topic.type # "dict"
    /\ FileRaises("AttributeError", disk)

(***************************************************************************)
(* DrawioGenerator._convert_json_topic / _convert_xml_topic, one frame per *)
(* call; the top of the stack is the running call.                         *)
(***************************************************************************)
Top == stack[Len(stack)]
SetTop(f) == [stack EXCEPT ![Len(stack)] = f]

\* variant of body_order: the callout loop runs before the children loop
body_order_CalloutsFirst == <<"callouts", "children">>

\* the loops of the body of the emitter after its vertex, as written: the
\* loop over the attached children, then the loop over the callouts
body_order == <<"children", "callouts">>

\* the call f positioned at the start of the k-th loop of its body: a loop
\* over an empty list is passed over, and past the last loop the call
\* returns; total_height and the start of the running cursor are computed
\* on entering the children loop
RECURSIVE EnterLoop(_, _, _)
EnterLoop(f, k, is_json) ==
    LET kids == kids_of(f.topic, is_json)
        cos == callouts_of(f.topic, is_json)
    IN  IF k > Len(body_order)
        THEN [f EXCEPT !.pc = "return", !.phase = k]
        ELSE IF body_order[k] = "children" /\ kids # <<>>
        THEN [f EXCEPT !.pc = "children", !.phase = k, !.i = 1,
                       !.current_y = first_child_y(f.y, total_height(kids, is_json))]
        ELSE IF body_order[k] = "callouts" /\ cos # <<>>
        THEN [f EXCEPT !.pc = "callouts", !.phase = k, !.i = 1]
        ELSE EnterLoop(f, k + 1, is_json)

\* current_id = str(self.cell_id); self.cell_id += 1; the vertex cell and
\* its geometry; then the first loop of the body is entered
EmitTopic ==
    /\ pc = "emit"
    /\ stack # <<>>
    /\ Top.pc = "vertex"
    /\ LET f == Top
           current_id == ToString(cell_id)
       IN  /\ cell_id' = NextCellId(cell_id)
           /\ cells' = Append(cells,
                  VertexCell(current_id, topic_title(f.topic, is_json_format),
                             get_style(f.level), f.x, f.y, box_width, box_height,
                             Origin(f.path, 0, f.band)))
           /\ stack' = SetTop(EnterLoop([f EXCEPT !.current_id = current_id],
                                         1, is_json_format))
    /\ UNCHANGED <<pc, nfiles, idx, log, file, root, is_json_format, root_topic, ret, disk, saved>>

\* loop body up to the recursive call: child_height, child_x, child_y and
\* the call of the emitter on the child
EnterChild ==
    /\ pc = "emit"
    /\ stack # <<>>
    /\ Top.pc = "children"
    /\ LET f == Top
           kids == kids_of(f.topic, is_json_format)
           child_topic == kids[f.i]
           child_height == subtree_height(child_topic, is_json_format)
       IN  stack' = Append(SetTop([f EXCEPT !.pc = "connect", !.child_height = child_height]),
                           Frame(child_topic, f.current_id, child_x(f.x),
                                 child_y(f.current_y, child_height), f.level + 1,
                                 Append(f.path, f.i), child_height))
    /\ UNCHANGED <<pc, nfiles, idx, log, file, root, is_json_format, root_topic,
                   cell_id, cells, ret, disk, saved>>

\* rest of the loop body after the call returned child_id:
\* self._create_connector(parent, current_id, child_id);
\* current_y += child_height
ConnectChild ==
    /\ pc = "emit"
    /\ stack # <<>>
    /\ Top.pc = "connect"
    /\ LET f == Top
           kids == kids_of(f.topic, is_json_format)
           connector_id == ToString(cell_id)
       IN  /\ cell_id' = NextCellId(cell_id)
           /\ cells' = Append(cells,
                  EdgeCell(connector_id, connector_style, f.current_id, ret,
                           Origin(Append(f.path, f.i), 0, 0)))
           /\ stack' = SetTop(
                  IF f.i < Len(kids)
                  THEN [f EXCEPT !.current_y = f.current_y + f.child_height,
                                 !.i = f.i + 1,
                                 !.pc = "children"]
                  ELSE EnterLoop([f EXCEPT !.current_y = f.current_y + f.child_height],
                                 f.phase + 1, is_json_format))
    /\ UNCHANGED <<pc, nfiles, idx, log, file, root, is_json_format, root_topic, ret, disk, saved>>

\* one iteration of the callout loop: _convert_json_callout appends the
\* note vertex and its dashed connector
EmitCallout ==
    /\ pc = "emit"
    /\ stack # <<>>
    /\ Top.pc = "callouts"
    /\ LET f == Top
           cos == callouts_of(f.topic, is_json_format)
           j == f.i
           note_id == ToString(cell_id)
           connector_id == ToString(NextCellId(cell_id))
       IN  /\ cell_id' = NextCellId(NextCellId(cell_id))
           /\ cells' = cells \o
                  << VertexCell(note_id, callout_title(cos[j]), callout_style,
                                callout_x(f.x), callout_y(f.y, j - 1),
                                callout_width, callout_height, Origin(f.path, j, 0)),
                     EdgeCell(connector_id, dashed_style, f.current_id, note_id,
                              Origin(f.path, j, 0)) >>
           /\ stack' = SetTop(
                  IF j < Len(cos)
                  THEN [f EXCEPT !.i = j + 1]
                  ELSE EnterLoop(f, f.phase + 1, is_json_format))
    /\ UNCHANGED <<pc, nfiles, idx, log, file, root, is_json_format, root_topic, ret, disk, saved>>

\* return current_id
ReturnTopic ==
    /\ pc = "emit"
    /\ stack # <<>>
    /\ Top.pc = "return"
    /\ LET f == Top
       IN  /\ ret' = f.current_id
           /\ stack' = SubSeq(stack, 1, Len(stack) - 1)
           /\ pc' = IF Len(stack) = 1 THEN "save" ELSE "emit"
    /\ UNCHANGED <<nfiles, idx, log, file, root, is_json_format, root_topic,
                   cell_id, cells, disk, saved>>

(***************************************************************************)
(* convert_file: tree.write(output_path)                                   *)
(***************************************************************************)
Save ==
    /\ pc = "save"
    /\ IF Serializable(cells)
       THEN FileReturns("Saved", written_file(cells), keep_output(saved, file, cells))
       ELSE FileRaises("TypeError", written_file(cells))

Next ==
    \/ ConvertAll
    \/ NextFile
    \/ LoopEnds
    \/ Parse
    \/ GetRootTopic
    \/ CreateDrawioXml
    \/ CreateDrawioXmlRaises
    \/ EmitTopic
    \/ EnterChild
    \/ ConnectChild
    \/ EmitCallout
    \/ ReturnTopic
    \/ Save

Spec == Init /\ [][Next]_vars

TypeOK ==
    /\ pc \in {"start", "loop", "parse", "get_root_topic", "create_drawio_xml",
               "emit", "save", "done", "crashed"}
    /\ nfiles \in 0..MaxFiles
    /\ idx \in 1..(MaxFiles + 1)
    /\ cell_id >= InitialCellId

(***************************************************************************)
(* Reading the output and the source for the properties below.             *)
(***************************************************************************)
Converting == pc \in {"emit", "save"}
Built == pc = "save"

IsVertex(c) == "vertex" \in DOMAIN c.attrib
IsEdge(c) == "edge" \in DOMAIN c.attrib
IsNote(c) == IsVertex(c) /\ c.attrib.style = callout_style
IsTopicBox(c) == IsVertex(c) /\ c.attrib.style # callout_style
IsDashed(c) == IsEdge(c) /\ c.attrib.style = dashed_style
IsConnector(c) == IsEdge(c) /\ c.attrib.style # dashed_style

CellKind(c) ==
    IF IsNote(c) THEN "note" ELSE IF IsVertex(c) THEN "topic"
    ELSE IF IsDashed(c) THEN "dashed" ELSE IF IsEdge(c) THEN "connector" ELSE "default"

Geometry(c) == c.children[1]

Abs(n) == IF n < 0 THEN -n ELSE n

IsPrefix(p, q) == Len(p) <= Len(q) /\ SubSeq(q, 1, Len(p)) = p

\* the topic handed to create_drawio_xml
SourceTree == IF is_json_format THEN root_topic.fields ELSE root_topic

\* the Topic view of section 4.2 of the specification: attached children
\* and callouts of a topic in either encoding
ViewAttached(topic, is_json) ==
    IF is_json
    THEN IF "children" \in DOMAIN topic /\ "attached" \in DOMAIN topic.children
         THEN topic.children.attached ELSE <<>>
    ELSE IF "children" \in DOMAIN topic
         THEN Flatten([i \in 1..Len(topic.children) |-> topic.children[i].topics])
         ELSE <<>>
ViewCallouts(topic, is_json) ==
    IF is_json /\ "children" \in DOMAIN topic /\ "callout" \in DOMAIN topic.children
    THEN topic.children.callout ELSE <<>>

RECURSIVE CountTopics(_, _)
CountTopics(topic, is_json) ==
    LET ks == ViewAttached(topic, is_json)
    IN  1 + SumSeq([i \in 1..Len(ks) |-> CountTopics(ks[i], is_json)])

RECURSIVE CountCallouts(_, _)
CountCallouts(topic, is_json) ==
    LET ks == ViewAttached(topic, is_json)
    IN  Len(ViewCallouts(topic, is_json))
        + SumSeq([i \in 1..Len(ks) |-> CountCallouts(ks[i], is_json)])

RECURSIVE MostCallouts(_, _)
MostCallouts(topic, is_json) ==
    LET ks == ViewAttached(topic, is_json)
        RECURSIVE Most(_)
        Most(i) == IF i > Len(ks) THEN Len(ViewCallouts(topic, is_json))
                   ELSE Max(MostCallouts(ks[i], is_json), Most(i + 1))
    IN  Most(1)

RECURSIVE TopicAt(_, _, _)
TopicAt(topic, path, is_json) ==
    IF path = <<>> THEN topic
    ELSE TopicAt(ViewAttached(topic, is_json)[Head(path)], Tail(path), is_json)

CountCells(P(_)) == Cardinality({ i \in 1..Len(cells) : P(cells[i]) })

(***************************************************************************)
(* C1: in the output of create_drawio_xml, for a tree of either encoding,  *)
(* all mxCell ids are pairwise distinct, id "0" and id "1" each occur      *)
(* exactly once, cell "1" has parent "0", and no vertex or edge cell       *)
(* carries id "0" or "1".  Holds of every prefix of the emission too.      *)
(***************************************************************************)
C1_UniqueIds ==
    Converting =>
        /\ \A i, j \in 1..Len(cells) : i # j => cells[i].attrib.id # cells[j].attrib.id
        /\ Cardinality({ i \in 1..Len(cells) : cells[i].attrib.id = "0" }) = 1
        /\ Cardinality({ i \in 1..Len(cells) : cells[i].attrib.id = "1" }) = 1
        /\ \A i \in 1..Len(cells) :
              cells[i].attrib.id = "1" =>
                  "parent" \in DOMAIN cells[i].attrib /\ cells[i].attrib.parent = "0"
        /\ \A i \in 1..Len(cells) :
              (IsVertex(cells[i]) \/ IsEdge(cells[i])) => cells[i].attrib.id \notin {"0", "1"}

\* a finished document with topics, connectors and a callout
C1_Witness ==
    /\ Built
    /\ CountCells(IsTopicBox) >= 3
    /\ CountCells(IsNote) >= 1

(***************************************************************************)
(* C2.  The order of the cells of a tree as the claim states it: the       *)
(* topic's vertex, the connector from its parent, its callouts each with   *)
(* its dashed connector, then the subtrees of the attached children.       *)
(***************************************************************************)
Slot(kind, path, callout) == [kind |-> kind, path |-> path, callout |-> callout]

SlotOf(c) == Slot(CellKind(c), c.origin.path, c.origin.callout)

CalloutSlots(path, n) ==
    Flatten([j \in 1..n |-> << Slot("note", path, j), Slot("dashed", path, j) >>])

RECURSIVE ClaimedOrder(_, _, _)
ClaimedOrder(topic, path, is_json) ==
    LET ks == ViewAttached(topic, is_json)
    IN  << Slot("topic", path, 0) >>
        \o (IF path # <<>> THEN << Slot("connector", path, 0) >> ELSE <<>>)
        \o CalloutSlots(path, Len(ViewCallouts(topic, is_json)))
        \o Flatten([i \in 1..Len(ks) |-> ClaimedOrder(ks[i], Append(path, i), is_json)])

\* the order as amended: the topic's vertex, then for each attached child
\* its whole subtree followed by the connector to it, then the callouts
RECURSIVE EmissionOrder(_, _, _)
EmissionOrder(topic, path, is_json) ==
    LET ks == ViewAttached(topic, is_json)
    IN  << Slot("topic", path, 0) >>
        \o Flatten([i \in 1..Len(ks) |->
                       EmissionOrder(ks[i], Append(path, i), is_json)
                       \o << Slot("connector", Append(path, i), 0) >>])
        \o CalloutSlots(path, Len(ViewCallouts(topic, is_json)))

\* the k-th generated cell carries id k + 1 and fills the k-th slot
FollowsOrder(order) ==
    /\ Len(cells) = Len(order) + 2
    /\ \A k \in 1..Len(order) :
          /\ cells[k + 2].attrib.id = ToString(k + 1)
          /\ SlotOf(cells[k + 2]) = order[k]

\* C2 as claimed: generated ids count up from 2 by 1 per cell in the order
\* vertex, connector from the parent, callouts, subtrees of the children
C2_ClaimedOrder ==
    Built => FollowsOrder(ClaimedOrder(SourceTree, <<>>, is_json_format))

\* C2 as amended: generated ids count up from 2 by 1 per cell in the order
\* vertex, then per attached child its subtree and then the connector to
\* it, then the callouts each followed by its dashed connector
C2_EmissionOrder ==
    Built => FollowsOrder(EmissionOrder(SourceTree, <<>>, is_json_format))

\* a finished JSON document whose root has a callout and a child with a child
C2_Witness ==
    /\ Built
    /\ is_json_format
    /\ ViewCallouts(SourceTree, TRUE) # <<>>
    /\ ViewAttached(SourceTree, TRUE) # <<>>
    /\ ViewAttached(ViewAttached(SourceTree, TRUE)[1], TRUE) # <<>>

(***************************************************************************)
(* C3: the finished output has one topic vertex per topic reachable over   *)
(* attached children, one note per callout of such a topic, one normal     *)
(* connector per parent-child relation and one dashed connector per        *)
(* callout; for the tree of Scenario A that is 8 vertices and 7 edges.     *)
(***************************************************************************)
C3_Counts ==
    Built =>
        /\ CountCells(IsTopicBox) = CountTopics(SourceTree, is_json_format)
        /\ CountCells(IsNote) = CountCallouts(SourceTree, is_json_format)
        /\ CountCells(IsConnector) = CountTopics(SourceTree, is_json_format) - 1
        /\ CountCells(IsDashed) = CountCallouts(SourceTree, is_json_format)
        /\ (is_json_format /\ SourceTree = ScenarioA) =>
               CountCells(IsVertex) = 8 /\ CountCells(IsEdge) = 7

C3_Witness ==
    /\ Built
    /\ is_json_format
    /\ SourceTree = ScenarioA
    /\ CountCells(IsNote) = 2

(***************************************************************************)
(* C4.  Two vertex cells collide when their x differ by less than 80 and   *)
(* their y by less than 40 (test_no_overlapping_cells).                    *)
(***************************************************************************)
Collide(a, b) ==
    /\ Abs(Geometry(a).x - Geometry(b).x) < 80
    /\ Abs(Geometry(a).y - Geometry(b).y) < 40

NoCollision ==
    \A i, j \in 1..Len(cells) :
        (i < j /\ IsVertex(cells[i]) /\ IsVertex(cells[j])) => ~Collide(cells[i], cells[j])

BandLow(c) == 2 * Geometry(c).y - c.origin.band
BandHigh(c) == 2 * Geometry(c).y + c.origin.band

Siblings(a, b) ==
    /\ a.origin.path # <<>>
    /\ Len(a.origin.path) = Len(b.origin.path)
    /\ a.origin.path # b.origin.path
    /\ SubSeq(a.origin.path, 1, Len(a.origin.path) - 1)
         = SubSeq(b.origin.path, 1, Len(b.origin.path) - 1)

C5_SiblingBands ==
    Converting =>
        \A i, j \in 1..Len(cells) :
            (IsTopicBox(cells[i]) /\ IsTopicBox(cells[j]) /\ Siblings(cells[i], cells[j])) =>
                /\ BandHigh(cells[i]) <= BandLow(cells[j])
                     \/ BandHigh(cells[j]) <= BandLow(cells[i])
                /\ \A k \in 1..Len(cells) :
                      (IsTopicBox(cells[k])
                         /\ IsPrefix(cells[i].origin.path, cells[k].origin.path)) =>
                          /\ BandLow(cells[i]) <= 2 * Geometry(cells[k]).y
                          /\ 2 * Geometry(cells[k]).y <= BandHigh(cells[i])
                          /\ ~( BandLow(cells[j]) < 2 * Geometry(cells[k]).y
                                /\ 2 * Geometry(cells[k]).y < BandHigh(cells[j]) )

\* a finished document with two siblings of different band heights, one of
\* them with a child of its own
C5_Witness ==
    /\ Built
    /\ \E i, j, k \in 1..Len(cells) :
          /\ IsTopicBox(cells[i]) /\ IsTopicBox(cells[j]) /\ IsTopicBox(cells[k])
          /\ Siblings(cells[i], cells[j])
          /\ cells[i].origin.band > cells[j].origin.band
          /\ cells[k].origin.path # cells[i].origin.path
          /\ IsPrefix(cells[i].origin.path, cells[k].origin.path)

(***************************************************************************)
(* C6: a failure on one file never stops the batch: when convert_all has   *)
(* ended, in whatever way, every file of the sequence has been through     *)
(* convert_file.                                                           *)
(***************************************************************************)
C6_BatchContinues ==
    pc \in {"done", "crashed"} => Len(log) = nfiles

(***************************************************************************)
(* C7: an input whose conversion fails at open, entry lookup, parse,       *)
(* root-topic lookup or emission leaves no output file; an output file     *)
(* appears only once the whole document has been built (every frame of     *)
(* the emitter has returned).                                              *)
(***************************************************************************)
FailingSteps == {"open", "entry", "parse", "root", "emission"}

C7_NoOutputOnFailure ==
    /\ \A i \in 1..Len(log) : log[i].input \in FailingSteps => log[i].output = "none"
    /\ InputClass(file) \in FailingSteps => disk = "none"
    /\ disk # "none" => (stack = <<>> /\ Len(cells) >= 3)

\* a batch in which one file was saved and a later one failed in emission
C7_Witness ==
    /\ pc = "crashed"
    /\ log[Len(log)].input = "emission"
    /\ \E j \in 1..Len(log) : log[j].output = "complete"

(***************************************************************************)
(* C8: parse picks the encoding by entry presence: with content.json in    *)
(* the archive the document is the parsed JSON and the encoding is JSON,   *)
(* also when content.xml is there too, and an invalid JSON payload is a    *)
(* failure, not a reason to read the XML; otherwise with content.xml the   *)
(* document is the parsed XML and the encoding is XML; otherwise, and for  *)
(* an archive that does not open, no document is returned.                 *)
(***************************************************************************)
C8_EncodingByEntry ==
    /\ pc \in {"get_root_topic", "create_drawio_xml", "emit", "save", "crashed"} =>
          /\ file.zip
          /\ IF "content.json" \in file.names
             THEN is_json_format /\ file.json.valid /\ root = file.json.doc
             ELSE /\ "content.xml" \in file.names
                  /\ ~is_json_format /\ file.xml.valid /\ root = file.xml.doc
    /\ \A i \in 1..Len(log) :
          log[i].input \in {"open", "entry", "parse"} =>
              log[i].message = "Failed to parse" /\ log[i].output = "none"

\* an archive with both entries has been parsed, after an earlier file
\* was refused
C8_Witness ==
    /\ pc = "get_root_topic"
    /\ {"content.json", "content.xml"} \subseteq file.names
    /\ is_json_format
    /\ \E i \in 1..Len(log) : log[i].input = "parse"

(***************************************************************************)
(* C9: for a document that parse returned, the outcome "no root topic" is  *)
(* reported exactly when the root cannot be located, with its own message  *)
(* and without output.                                                     *)
(***************************************************************************)
C9_MissingRootReported ==
    \A i \in 1..Len(log) :
        log[i].message # "Failed to parse" =>
            /\ log[i].input = "root" <=> log[i].message = "No root topic found"
            /\ log[i].input = "root" => log[i].output = "none"

(***************************************************************************)
(* C10: the value of every topic vertex is the title of its topic when     *)
(* that is present and non-empty and the placeholder otherwise, and such   *)
(* a title never makes the conversion fail.                                *)
(***************************************************************************)
ExpectedValue(topic) ==
    IF "title" \in DOMAIN topic /\ topic.title # "" THEN topic.title ELSE "Topic"

C10_TitleOrPlaceholder ==
    /\ Converting =>
          \A i \in 1..Len(cells) :
              IsTopicBox(cells[i]) =>
                  cells[i].attrib.value
                    = ExpectedValue(TopicAt(SourceTree, cells[i].origin.path, is_json_format))
    /\ pc = "crashed" => log[Len(log)].input # "ok"

(***************************************************************************)
(* C11: every generated vertex cell has exactly one mxGeometry child and   *)
(* it carries as="geometry"; every edge cell has exactly one mxGeometry    *)
(* child and it carries as="geometry" and relative="1"; no geometry        *)
(* element is without the as attribute.                                    *)
(***************************************************************************)
MarkedGeometry(g) == "as" \in DOMAIN g /\ g.as = "geometry"

C11_GeometryWellFormed ==
    Converting =>
        \A i \in 1..Len(cells) :
            /\ IsVertex(cells[i]) =>
                   Len(cells[i].children) = 1 /\ MarkedGeometry(cells[i].children[1])
            /\ IsEdge(cells[i]) =>
                   /\ Len(cells[i].children) = 1
                   /\ MarkedGeometry(cells[i].children[1])
                   /\ "relative" \in DOMAIN cells[i].children[1]
                   /\ cells[i].children[1].relative = "1"
            /\ \A k \in 1..Len(cells[i].children) : "as" \in DOMAIN cells[i].children[k]

\* a finished document with a topic box, a connector, a note and a dashed
\* connector
C11_Witness ==
    /\ Built
    /\ CountCells(IsConnector) >= 1
    /\ CountCells(IsDashed) >= 1
    /\ CountCells(IsNote) >= 1

(***************************************************************************)
(* C12: every edge cell has a non-empty source and target, both ids of     *)
(* vertex cells of the same output; a normal connector runs from the       *)
(* vertex of the parent topic to the vertex of the attached child, a       *)
(* dashed connector from the vertex of the owning topic to its note.       *)
(***************************************************************************)
Front(p) == SubSeq(p, 1, Len(p) - 1)

\* the vertex cell with the given id is the box of the topic at path, or
\* (callout > 0) the note of that callout of the topic at path
IsVertexOf(id, path, callout) ==
    \E k \in 1..Len(cells) :
        /\ IsVertex(cells[k])
        /\ cells[k].attrib.id = id
        /\ cells[k].origin.path = path
        /\ cells[k].origin.callout = callout
        /\ IsNote(cells[k]) <=> callout > 0

C12_EdgeEndpoints ==
    Converting =>
        \A i \in 1..Len(cells) :
            IsEdge(cells[i]) =>
                /\ "source" \in DOMAIN cells[i].attrib /\ cells[i].attrib.source # ""
                /\ "target" \in DOMAIN cells[i].attrib /\ cells[i].attrib.target # ""
                /\ IsConnector(cells[i]) =>
                       /\ IsVertexOf(cells[i].attrib.source, Front(cells[i].origin.path), 0)
                       /\ IsVertexOf(cells[i].attrib.target, cells[i].origin.path, 0)
                /\ IsDashed(cells[i]) =>
                       /\ IsVertexOf(cells[i].attrib.source, cells[i].origin.path, 0)
                       /\ IsVertexOf(cells[i].attrib.target, cells[i].origin.path,
                                     cells[i].origin.callout)

\* a finished document with a connector to a grandchild and a dashed
\* connector of a topic that is not the root
C12_Witness ==
    /\ Built
    /\ \E i, j \in 1..Len(cells) :
          /\ IsConnector(cells[i]) /\ Len(cells[i].origin.path) = 2
          /\ IsDashed(cells[j]) /\ cells[j].origin.path # <<>>

(***************************************************************************)
(* C13: conversion is deterministic and independent of what the batch did  *)
(* before: a document converted again in the same run, first or after      *)
(* other files, yields the same cells (ids, kinds, endpoints, positions)   *)
(* as its earlier conversion, and the id counter of every conversion       *)
(* starts at 2.                                                            *)
(***************************************************************************)
C13_SameOutputAgain ==
    /\ (Built /\ file \in DOMAIN saved) => cells = saved[file]
    /\ (Converting /\ Len(cells) = Len(DefaultCells)) => cell_id = 2
    /\ (Converting /\ Len(cells) > Len(DefaultCells)) =>
           cells[Len(DefaultCells) + 1].attrib.id = "2"

\* a document has been converted for the second time in one run
C13_Witness ==
    /\ Built
    /\ file \in DOMAIN saved
    /\ Len(log) >= 1
    /\ Len(cells) > 5

(***************************************************************************)
(* C14: in the sequence of emitted cells, for every topic: its vertex      *)
(* comes before every cell of the subtrees of its attached children; the   *)
(* connector to an attached child comes immediately after the whole        *)
(* subtree of that child, whose cells are consecutive; and every cell of   *)
(* its attached children, their connectors included, comes before any of   *)
(* its own callout notes and dashed connectors.                            *)
(***************************************************************************)
Emitted == (Len(DefaultCells) + 1)..Len(cells)

\* cell k belongs to the subtree of the topic at path q: the vertex of the
\* topic, its notes and dashed connectors, and everything below it
InSubtree(k, q) ==
    /\ IsPrefix(q, cells[k].origin.path)
    /\ ~(IsConnector(cells[k]) /\ cells[k].origin.path = q)

\* cell k belongs to an attached child of the topic at path p
BelowTopic(k, p) ==
    IsPrefix(p, cells[k].origin.path) /\ cells[k].origin.path # p

C14_DepthFirstOrder ==
    Converting =>
        /\ \A v, k \in Emitted :
              (IsTopicBox(cells[v]) /\ BelowTopic(k, cells[v].origin.path)) => v < k
        /\ \A i \in Emitted :
              IsConnector(cells[i]) =>
                  \E a \in Emitted :
                      /\ a < i
                      /\ IsTopicBox(cells[a]) /\ cells[a].origin.path = cells[i].origin.path
                      /\ \A k \in Emitted :
                            InSubtree(k, cells[i].origin.path) <=> (a <= k /\ k < i)
        /\ \A n, k \in Emitted :
              (cells[n].origin.callout > 0 /\ BelowTopic(k, cells[n].origin.path)) => k < n
        /\ Built => \A v \in Emitted :
              (IsTopicBox(cells[v]) /\ cells[v].origin.path # <<>>) =>
                  \E i \in Emitted :
                      IsConnector(cells[i]) /\ cells[i].origin.path = cells[v].origin.path

\* a finished tree in which a topic with callouts has a child that has a
\* child and a callout of its own
C14_Witness ==
    /\ Built
    /\ \E n, c, g, m \in Emitted :
          /\ IsNote(cells[n]) /\ IsNote(cells[m]) /\ IsTopicBox(cells[c]) /\ IsTopicBox(cells[g])
          /\ cells[c].origin.path = Append(cells[n].origin.path, 1)
          /\ cells[g].origin.path = Append(cells[c].origin.path, 1)
          /\ cells[m].origin.path = cells[c].origin.path

(***************************************************************************)
(* C15: for an XML-encoded document, whatever topics containers it holds,  *)
(* the output has no note vertex and no dashed connector, and every topic  *)
(* element of every topics container under a topic's children element is   *)
(* emitted as an attached child: a topic box one column to the right and   *)
(* a normal connector from the parent's box to it.  The sample document    *)
(* of create_test_xmind_xml yields 4 vertices and 3 normal edges.          *)
(***************************************************************************)
\* the topics containers under the children element of an XML topic
Containers(e) == IF "children" \in DOMAIN e THEN e.children ELSE <<>>

\* number of topic elements in the containers before the c-th
RECURSIVE TopicsBefore(_, _)
TopicsBefore(cs, c) ==
    IF c <= 1 THEN 0 ELSE TopicsBefore(cs, c - 1) + Len(cs[c - 1].topics)

\* number of topic elements of the document below and including e
RECURSIVE XmlTopics(_)
XmlTopics(e) ==
    LET cs == Containers(e)
    IN  1 + SumSeq([c \in 1..Len(cs) |->
                SumSeq([t \in 1..Len(cs[c].topics) |-> XmlTopics(cs[c].topics[t])])])

\* below the box at cell v, emitted for element e, every topic element of
\* every container of e has its box and its connector, and so on downwards
RECURSIVE EmittedBelow(_, _)
EmittedBelow(v, e) ==
    LET cs == Containers(e)
    IN  \A c \in 1..Len(cs) : \A t \in 1..Len(cs[c].topics) :
            \E w, d \in Emitted :
                /\ IsTopicBox(cells[w])
                /\ cells[w].origin.path
                     = Append(cells[v].origin.path, TopicsBefore(cs, c) + t)
                /\ cells[w].attrib.value = xml_title(cs[c].topics[t])
                /\ Geometry(cells[w]).x = Geometry(cells[v]).x + x_spacing
                /\ IsConnector(cells[d])
                /\ cells[d].attrib.source = cells[v].attrib.id
                /\ cells[d].attrib.target = cells[w].attrib.id
                /\ EmittedBelow(w, cs[c].topics[t])

C15_XmlAllAttached ==
    (Built /\ ~is_json_format) =>
        /\ CountCells(IsNote) = 0
        /\ CountCells(IsDashed) = 0
        /\ CountCells(IsTopicBox) = XmlTopics(root_topic)
        /\ CountCells(IsConnector) = XmlTopics(root_topic) - 1
        /\ \E v \in Emitted :
              /\ IsTopicBox(cells[v]) /\ cells[v].origin.path = <<>>
              /\ EmittedBelow(v, root_topic)
        /\ root_topic = ScenarioB =>
              CountCells(IsVertex) = 4 /\ CountCells(IsConnector) = 3

\* a finished XML document whose root has an attached container and a
\* callout container, both with topics
C15_Witness ==
    /\ Built
    /\ ~is_json_format
    /\ Len(Containers(root_topic)) = 2
    /\ Containers(root_topic)[1].type = "attached"
    /\ Containers(root_topic)[2].type = "callout"
    /\ Len(Containers(root_topic)[2].topics) >= 1
    /\ CountCells(IsTopicBox) >= 4

\* the sample document of create_test_xmind_xml has been converted
C15_WitnessSample == Built /\ ~is_json_format /\ root_topic = ScenarioB

(***************************************************************************)
(* C16: for every topic the subtree height is base = 120 + 70 * (number    *)
(* of its callouts) when it has no attached children, and the larger of    *)
(* base and the sum of the subtree heights of its attached children        *)
(* otherwise; a topic without attached children and callouts has height    *)
(* 120.  XML topics: the same with zero callouts.  Read off the finished   *)
(* output: the height allotted to every emitted non-root topic obeys the   *)
(* recurrence over the heights allotted to its children.                   *)
(***************************************************************************)
\* the cells of the boxes of the attached children of the topic at path p
ChildBoxes(p) ==
    { k \in Emitted : IsTopicBox(cells[k]) /\ cells[k].origin.path # <<>>
                      /\ Front(cells[k].origin.path) = p }

RECURSIVE SumBands(_)
SumBands(K) ==
    IF K = {} THEN 0
    ELSE LET k == CHOOSE x \in K : TRUE
         IN  cells[k].origin.band + SumBands(K \ {k})

BaseHeight(topic, is_json) == 120 + 70 * Len(ViewCallouts(topic, is_json))

C16_SubtreeHeight ==
    Built =>
        \A v \in Emitted :
            (IsTopicBox(cells[v]) /\ cells[v].origin.path # <<>>) =>
                LET t == TopicAt(SourceTree, cells[v].origin.path, is_json_format)
                    h == cells[v].origin.band
                    base == BaseHeight(t, is_json_format)
                    kids == ChildBoxes(cells[v].origin.path)
                IN  /\ h = subtree_height(t, is_json_format)
                    /\ Cardinality(kids) = Len(ViewAttached(t, is_json_format))
                    /\ kids = {} => h = base
                    /\ kids # {} => h = Max(base, SumBands(kids))
                    /\ (kids = {} /\ ViewCallouts(t, is_json_format) = <<>>) => h = 120
                    /\ ~is_json_format => base = 120

\* a finished tree with a non-root topic whose callouts need more room
\* than its attached children
C16_Witness ==
    /\ Built
    /\ \E v \in Emitted :
          /\ IsTopicBox(cells[v]) /\ cells[v].origin.path # <<>>
          /\ ChildBoxes(cells[v].origin.path) # {}
          /\ cells[v].origin.band > SumBands(ChildBoxes(cells[v].origin.path))

(***************************************************************************)
(* C17: the root topic is placed at (400, 300) with level 0, and for every *)
(* topic at (x, y) with attached children c1..cn in source order, child ck *)
(* is placed at x + 250 and at                                             *)
(*   y - total/2 + (sum of height(cj) for j < k) + height(ck)/2,           *)
(* total being the sum of all height(cj): the children's combined band is  *)
(* centred on the parent's y, and the children's y values strictly         *)
(* increase in source order.                                               *)
(***************************************************************************)
\* the subtree height of section 4.4 of the specification, on the Topic view
RECURSIVE ViewHeight(_, _)
ViewHeight(topic, is_json) ==
    LET ks == ViewAttached(topic, is_json)
        base == BaseHeight(topic, is_json)
    IN  IF ks = <<>> THEN base
        ELSE Max(base, SumSeq([i \in 1..Len(ks) |-> ViewHeight(ks[i], is_json)]))

\* sum of the heights of the first n of the topics ks
HeightsUpTo(ks, n, is_json) == SumSeq([i \in 1..n |-> ViewHeight(ks[i], is_json)])

Last(p) == p[Len(p)]

C17_ChildPlacement ==
    Converting =>
        /\ \A v \in Emitted :
              (IsTopicBox(cells[v]) /\ cells[v].origin.path = <<>>) =>
                  /\ Geometry(cells[v]).x = 400
                  /\ Geometry(cells[v]).y = 300
                  /\ cells[v].attrib.style = get_style(0)
        /\ \A u, v \in Emitted :
              ( /\ IsTopicBox(cells[u]) /\ IsTopicBox(cells[v])
                /\ cells[v].origin.path # <<>>
                /\ Front(cells[v].origin.path) = cells[u].origin.path ) =>
                  LET ks == ViewAttached(TopicAt(SourceTree, cells[u].origin.path,
                                                 is_json_format), is_json_format)
                      k == Last(cells[v].origin.path)
                      total == HeightsUpTo(ks, Len(ks), is_json_format)
                  IN  /\ Geometry(cells[v]).x = Geometry(cells[u]).x + 250
                      /\ 2 * Geometry(cells[v]).y
                           = 2 * Geometry(cells[u]).y - total
                             + 2 * HeightsUpTo(ks, k - 1, is_json_format)
                             + ViewHeight(ks[k], is_json_format)
        /\ \A v, w \in Emitted :
              ( /\ IsTopicBox(cells[v]) /\ IsTopicBox(cells[w])
                /\ Siblings(cells[v], cells[w])
                /\ Last(cells[v].origin.path) < Last(cells[w].origin.path) ) =>
                  Geometry(cells[v]).y < Geometry(cells[w]).y

\* a finished tree where a topic has three attached children of unequal
\* heights, and unequal distances between them
C17_Witness ==
    /\ Built
    /\ \E a, b, c \in Emitted :
          /\ IsTopicBox(cells[a]) /\ IsTopicBox(cells[b]) /\ IsTopicBox(cells[c])
          /\ Siblings(cells[a], cells[b]) /\ Siblings(cells[b], cells[c])
          /\ Last(cells[a].origin.path) = 1
          /\ Last(cells[b].origin.path) = 2
          /\ Last(cells[c].origin.path) = 3
          /\ Geometry(cells[b]).y - Geometry(cells[a]).y
               # Geometry(cells[c]).y - Geometry(cells[b]).y

(***************************************************************************)
(* C18: for every JSON topic at (x, y), its callout with 0-based index i   *)
(* is emitted as a 200x60 note vertex at (x - 50, y - 80 - 70*i) followed  *)
(* by one dashed connector from the topic to the note; a callout yields    *)
(* exactly these two cells, whatever children or callouts the callout      *)
(* itself contains.                                                        *)
(***************************************************************************)
\* the callout of the source a note or dashed connector was emitted for
CalloutOf(c) ==
    ViewCallouts(TopicAt(SourceTree, c.origin.path, is_json_format),
                 is_json_format)[c.origin.callout]

C18_CalloutCells ==
    Converting =>
        /\ \A k \in Emitted :
              IsNote(cells[k]) =>
                  /\ is_json_format
                  /\ cells[k].attrib.value = callout_title(CalloutOf(cells[k]))
                  /\ Geometry(cells[k]).width = 200
                  /\ Geometry(cells[k]).height = 60
                  /\ \E t \in Emitted :
                        /\ IsTopicBox(cells[t])
                        /\ cells[t].origin.path = cells[k].origin.path
                        /\ Geometry(cells[k]).x = Geometry(cells[t]).x - 50
                        /\ Geometry(cells[k]).y
                             = Geometry(cells[t]).y - 80 - 70 * (cells[k].origin.callout - 1)
                        /\ k + 1 <= Len(cells)
                        /\ IsDashed(cells[k + 1])
                        /\ cells[k + 1].attrib.source = cells[t].attrib.id
                        /\ cells[k + 1].attrib.target = cells[k].attrib.id
        /\ \A k \in Emitted :
              IsDashed(cells[k]) => IsNote(cells[k - 1])
        /\ Built =>
              /\ \A t \in Emitted :
                    IsTopicBox(cells[t]) =>
                        \A j \in 1..Len(ViewCallouts(TopicAt(SourceTree, cells[t].origin.path,
                                                             is_json_format), is_json_format)) :
                            Cardinality({ k \in Emitted :
                                            /\ cells[k].origin.path = cells[t].origin.path
                                            /\ cells[k].origin.callout = j }) = 2
              /\ CountCells(IsNote) = CountCallouts(SourceTree, is_json_format)
              /\ Len(cells) = Len(DefaultCells)
                              + 2 * CountTopics(SourceTree, is_json_format) - 1
                              + 2 * CountCallouts(SourceTree, is_json_format)

\* a finished tree with a topic whose second callout has an attached child
\* and a callout of its own
C18_Witness ==
    /\ Built
    /\ \E k \in Emitted :
          /\ IsNote(cells[k])
          /\ cells[k].origin.callout = 2
          /\ attached_topics(CalloutOf(cells[k])) # <<>>
          /\ callout_topics(CalloutOf(cells[k])) # <<>>

(***************************************************************************)
(* C19: the vertical room reserved by the height pass and the callout      *)
(* stack.  For a topic at y with subtree height h, the band of the topic   *)
(* is [y - h/2, y + h/2] and the note of its callout with 0-based index i  *)
(* spans [y - 80 - 70*i, y - 20 - 70*i].                                   *)
(***************************************************************************)
\* the note at cell k lies inside the band of the topic box at cell t
\* (twice the coordinates, to stay in the integers)
NoteInsideBand(k, t) ==
    LET h == subtree_height(TopicAt(SourceTree, cells[t].origin.path, is_json_format),
                            is_json_format)
    IN  /\ 2 * Geometry(cells[t]).y - h <= 2 * Geometry(cells[k]).y
        /\ 2 * (Geometry(cells[k]).y + Geometry(cells[k]).height)
             <= 2 * Geometry(cells[t]).y + h

OwnerOf(k, t) ==
    /\ IsNote(cells[k]) /\ IsTopicBox(cells[t])
    /\ cells[t].origin.path = cells[k].origin.path

\* C19 as stated: every callout note of every topic lies inside the
\* topic's own band
C19_CalloutsInsideBand ==
    Converting =>
        \A k, t \in Emitted : OwnerOf(k, t) => NoteInsideBand(k, t)

\* C19, amended: the note with 0-based index i lies inside the band of its
\* topic exactly when 160 + 140*i <= h; that is so for the first note of
\* every topic, and it is not so for the topmost note of a topic with two
\* or more callouts and no attached children
C19_FirstCalloutInsideBand ==
    Converting =>
        \A k, t \in Emitted :
            OwnerOf(k, t) =>
                LET topic == TopicAt(SourceTree, cells[t].origin.path, is_json_format)
                    h == subtree_height(topic, is_json_format)
                    i == cells[k].origin.callout - 1
                IN  /\ NoteInsideBand(k, t) <=> (160 + 140 * i <= h)
                    /\ i = 0 => NoteInsideBand(k, t)
                    /\ ( /\ i > 0
                         /\ i + 1 = Len(ViewCallouts(topic, is_json_format))
                         /\ ViewAttached(topic, is_json_format) = <<>> )
                           => ~NoteInsideBand(k, t)

\* a finished tree with a first note inside the band of its topic and a
\* second note outside it
C19_Witness ==
    /\ Built
    /\ \E k, t \in Emitted :
          OwnerOf(k, t) /\ cells[k].origin.callout = 2 /\ ~NoteInsideBand(k, t)
    /\ \E k, t \in Emitted :
          OwnerOf(k, t) /\ cells[k].origin.callout = 1 /\ NoteInsideBand(k, t)

(***************************************************************************)
(* C20: topic boxes never overlap each other.  Every topic at level L has  *)
(* x = 400 + 250*L, and any two distinct topic vertices of the output      *)
(* have x coordinates that differ by at least 250 (different levels) or y  *)
(* coordinates that differ by at least 120 (same level), so two 120x60     *)
(* topic boxes never intersect.                                            *)
(***************************************************************************)
C20_TopicBoxesApart ==
    Converting =>
        /\ \A v \in Emitted :
              IsTopicBox(cells[v]) =>
                  Geometry(cells[v]).x = 400 + 250 * Len(cells[v].origin.path)
        /\ \A v, w \in Emitted :
              (v # w /\ IsTopicBox(cells[v]) /\ IsTopicBox(cells[w])) =>
                  \/ Abs(Geometry(cells[v]).x - Geometry(cells[w]).x) >= 250
                  \/ Abs(Geometry(cells[v]).y - Geometry(cells[w]).y) >= 120

\* a finished tree with two topics of the same level under different
\* parents, exactly 120 apart
C20_Witness ==
    /\ Built
    /\ \E v, w \in Emitted :
          /\ IsTopicBox(cells[v]) /\ IsTopicBox(cells[w])
          /\ Len(cells[v].origin.path) = 2
          /\ Len(cells[w].origin.path) = 2
          /\ Front(cells[v].origin.path) # Front(cells[w].origin.path)
          /\ Abs(Geometry(cells[v]).y - Geometry(cells[w]).y) = 120

(***************************************************************************)
(* C21: generated ids are contiguous and follow document order.  After     *)
(* converting a tree with T topics and C callouts the generated cells      *)
(* carry exactly the ids 2 .. 2T + 2C and the counter ends at 2T + 2C + 1; *)
(* the k-th generated cell in document order has id k + 1; the root topic  *)
(* has id "2"; the target id of every edge is smaller than the id of the   *)
(* edge; the id of a dashed connector is the id of its callout plus 1.     *)
(* The order and the edge relations hold of every prefix of the emission.  *)
(***************************************************************************)
\* the number an id attribute was written from
IdNumber(id) == CHOOSE n \in 0..cell_id : ToString(n) = id

C21_ContiguousIds ==
    Converting =>
        /\ \A k \in Emitted :
              cells[k].attrib.id = ToString((k - Len(DefaultCells)) + 1)
        /\ cell_id = (Len(cells) - Len(DefaultCells)) + 2
        /\ \A k \in Emitted :
              (IsTopicBox(cells[k]) /\ cells[k].origin.path = <<>>) =>
                  cells[k].attrib.id = "2"
        /\ \A k \in Emitted :
              IsEdge(cells[k]) =>
                  IdNumber(cells[k].attrib.target) < IdNumber(cells[k].attrib.id)
        /\ \A k \in Emitted :
              IsDashed(cells[k]) =>
                  \E n \in Emitted :
                      /\ IsNote(cells[n])
                      /\ cells[n].attrib.id = cells[k].attrib.target
                      /\ IdNumber(cells[k].attrib.id) = IdNumber(cells[n].attrib.id) + 1
        /\ Built =>
              LET T == CountTopics(SourceTree, is_json_format)
                  C == CountCallouts(SourceTree, is_json_format)
              IN  /\ { cells[k].attrib.id : k \in Emitted }
                       = { ToString(n) : n \in 2..(2 * T + 2 * C) }
                  /\ Cardinality(Emitted) = 2 * T + 2 * C - 1
                  /\ cell_id = 2 * T + 2 * C + 1

\* a finished tree with several topics and callouts, where a connector
\* follows a subtree that holds a callout: its target is more than one
\* id below its own
C21_Witness ==
    /\ Built
    /\ CountTopics(SourceTree, is_json_format) >= 3
    /\ CountCallouts(SourceTree, is_json_format) >= 2
    /\ \E k \in Emitted :
          /\ IsConnector(cells[k])
          /\ IdNumber(cells[k].attrib.id) >= IdNumber(cells[k].attrib.target) + 3

====
